---- MODULE Spec2Model ----
(***************************************************************************)
(* A model of the SymbolResolver of mcp-lsp-driver (resolver.ts): the      *)
(* line-window resolver resolvePosition and the unique-span locator        *)
(* findExactText, over files whose content is a sequence of UTF-16 code    *)
(* units.                                                                  *)
(***************************************************************************)
EXTENDS Integers, Sequences, FiniteSets

VARIABLES
    content,           \* the file's content on disk, a sequence of code units
    lineSearchRadius,  \* SymbolResolver.lineSearchRadius, set by the constructor
    config,            \* the ResolverConfig the constructor was given
    pc,                \* "idle" or "done": no call made / a call has settled
    call,              \* the arguments of the call that settled
    probes,            \* the findSymbolInLine invocations of that call, in order
    result,            \* what the call returned or threw
    tasks,             \* the resolver calls in flight, one record per caller
    trace,             \* what the running handler has called outside the driver, in order
    now,               \* Date.now(), in milliseconds
    issuedIds,         \* the ids generateEditId has returned so far, oldest first
    driver             \* what installMcpLspDriver was given and has registered

vars == <<content, lineSearchRadius, config, pc, call, probes, result,
          tasks, trace, now, issuedIds, driver>>

\* the state of the tool layer and of concurrent callers, which a single resolver call
\* leaves alone
serverVars == <<tasks, trace, now, issuedIds, driver>>

----------------------------------------------------------------------------
(* Bounds of the model. *)

MaxLen == 5          \* longest file content given to resolvePosition
MaxRadius == 2       \* largest lineSearchRadius a resolver is constructed with
MaxLineHint == 4     \* largest lineHint of a call
MaxOrderHint == 1    \* largest orderHint of a call
MaxFindLen == 5      \* longest file content given to findExactText
MaxTextLen == 2      \* longest searchText of a findExactText call

----------------------------------------------------------------------------
(* Code units.  HI and LO are a high and a low surrogate: HI directly      *)
(* followed by LO is one character (code point) that occupies two string   *)
(* indices.                                                                *)

LF == "\n"
CR == "\r"
HI == "hi"
LO == "lo"

LineAlphabet == {"a", "b", LF}
FindAlphabet == {"a", LF, HI, LO}

SeqsUpTo(S, n) == UNION {[1..k -> S] : k \in 0..n}

LineContents == SeqsUpTo(LineAlphabet, MaxLen)
FindContents == SeqsUpTo(FindAlphabet, MaxFindLen)
SymbolNames == {<<"a">>, <<"a", "a">>, <<"a", "b">>}
SearchTexts == SeqsUpTo(FindAlphabet, MaxTextLen)

Min(S) == CHOOSE x \in S : \A y \in S : x <= y
Max(S) == CHOOSE x \in S : \A y \in S : x >= y

----------------------------------------------------------------------------
(* String primitives of the language, on sequences of code units with      *)
(* 0-based indices.                                                        *)

\* s.slice(from, to), for from, to >= 0: both are clamped to the length
Slice(s, from, to) ==
    LET f == Min({from, Len(s)})
        t == Min({to, Len(s)})
    IN [k \in 1..(t - f) |-> s[f + k]]

\* s.indexOf(needle, from): the lowest index >= from at which needle occurs, else -1
IndexOf(s, needle, from) ==
    LET hits == {i \in from..(Len(s) - Len(needle)) :
                    Slice(s, i, i + Len(needle)) = needle}
    IN IF hits = {} THEN -1 ELSE Min(hits)

\* content.split(/\r?\n/)
RECURSIVE SplitFrom(_, _, _)
SplitFrom(s, i, cur) ==
    IF i > Len(s) THEN <<cur>>
    ELSE IF s[i] = LF THEN <<cur>> \o SplitFrom(s, i + 1, <<>>)
    ELSE IF s[i] = CR /\ i + 1 <= Len(s) /\ s[i + 1] = LF
         THEN <<cur>> \o SplitFrom(s, i + 2, <<>>)
    ELSE SplitFrom(s, i + 1, Append(cur, s[i]))

\* mutant: every '\r' and every '\n' ends a line, as content.split(/\r|\n/) would
RECURSIVE SplitEachBreakFrom(_, _, _)
SplitEachBreakFrom(s, i, cur) ==
    IF i > Len(s) THEN <<cur>>
    ELSE IF s[i] = LF \/ s[i] = CR THEN <<cur>> \o SplitEachBreakFrom(s, i + 1, <<>>)
    ELSE SplitEachBreakFrom(s, i + 1, Append(cur, s[i]))

Split_EachBreak(s) == SplitEachBreakFrom(s, 1, <<>>)

Split(s) == SplitFrom(s, 1, <<>>)

\* lines[index]: undefined outside the array
Undefined == <<"undefined">>
LineAt(lines, index) ==
    IF index >= 0 /\ index < Len(lines) THEN lines[index + 1] ELSE Undefined

----------------------------------------------------------------------------
(* SymbolResolver.findSymbolInLine *)

Null == -1

RECURSIVE findSymbolLoop(_, _, _, _, _)
findSymbolLoop(line, symbolName, orderHint, currentIndex, occurrenceCount) ==
    IF ~(currentIndex < Len(line)) THEN Null
    ELSE LET foundIndex == IndexOf(line, symbolName, currentIndex)
         IN IF foundIndex = -1 THEN Null
            ELSE IF occurrenceCount = orderHint THEN foundIndex
            ELSE findSymbolLoop(line, symbolName, orderHint,
                                foundIndex + 1, occurrenceCount + 1)

\* mutant: the scan resumes after the end of a match (currentIndex = foundIndex +
\* symbolName.length), so overlapping occurrences are skipped
RECURSIVE findSymbolLoopNoOverlap(_, _, _, _, _)
findSymbolLoopNoOverlap(line, symbolName, orderHint, currentIndex, occurrenceCount) ==
    IF ~(currentIndex < Len(line)) THEN Null
    ELSE LET foundIndex == IndexOf(line, symbolName, currentIndex)
         IN IF foundIndex = -1 THEN Null
            ELSE IF occurrenceCount = orderHint THEN foundIndex
            ELSE findSymbolLoopNoOverlap(line, symbolName, orderHint,
                                         foundIndex + Len(symbolName), occurrenceCount + 1)

findSymbolInLine_NoOverlap(line, symbolName, orderHint) ==
    IF line = Undefined \/ Len(line) = 0 THEN Null
    ELSE findSymbolLoopNoOverlap(line, symbolName, orderHint, 0, 0)

\* mutant: orderHint is taken as 1-based, so 1 asks for the first occurrence as 0 does
findSymbolInLine_OneBased(line, symbolName, orderHint) ==
    IF line = Undefined \/ Len(line) = 0 THEN Null
    ELSE findSymbolLoop(line, symbolName, Max({orderHint - 1, 0}), 0, 0)

findSymbolInLine(line, symbolName, orderHint) ==
    IF line = Undefined \/ Len(line) = 0 THEN Null
    ELSE findSymbolLoop(line, symbolName, orderHint, 0, 0)

----------------------------------------------------------------------------
(* SymbolResolver.resolvePosition.  The value is [probes, outcome]: probes *)
(* lists the findSymbolInLine invocations in the order they are made.      *)

Probe(lines, index, fuzzy) ==
    [index |-> index,
     found |-> findSymbolInLine(LineAt(lines, index), fuzzy.symbolName, fuzzy.orderHint)]

Position(line, character) == [ok |-> TRUE, line |-> line, character |-> character]

\* mutant: the error reports the 0-based targetLine instead of the caller's lineHint
SymbolResolutionError_ZeroBased(symbolName, lineHint, from, to) ==
    [ok |-> FALSE, name |-> "SymbolResolutionError",
     symbolName |-> symbolName, lineHint |-> lineHint - 1,
     reason |-> [from |-> from, to |-> to]]

SymbolResolutionError(symbolName, lineHint, from, to) ==
    [ok |-> FALSE, name |-> "SymbolResolutionError",
     symbolName |-> symbolName, lineHint |-> lineHint,
     reason |-> [from |-> from, to |-> to]]

\* the fallback loop, from `offset` on
RECURSIVE scanNearby(_, _, _, _, _)
scanNearby(lines, fuzzy, radius, offset, done) ==
    LET targetLine == fuzzy.lineHint - 1
        lineAbove == targetLine - offset
        lineBelow == targetLine + offset
    IN IF ~(offset <= radius)
       THEN [probes |-> done,
             outcome |-> SymbolResolutionError(
                 fuzzy.symbolName, fuzzy.lineHint,
                 Max({1, fuzzy.lineHint - radius}),
                 Min({Len(lines), fuzzy.lineHint + radius}))]
       ELSE LET above == Probe(lines, lineAbove, fuzzy)
                afterAbove == IF lineAbove >= 0 THEN Append(done, above) ELSE done
            IN IF lineAbove >= 0 /\ above.found # Null
               THEN [probes |-> afterAbove, outcome |-> Position(lineAbove, above.found)]
               ELSE LET below == Probe(lines, lineBelow, fuzzy)
                        afterBelow == IF lineBelow < Len(lines)
                                      THEN Append(afterAbove, below) ELSE afterAbove
                    IN IF lineBelow < Len(lines) /\ below.found # Null
                       THEN [probes |-> afterBelow,
                             outcome |-> Position(lineBelow, below.found)]
                       ELSE scanNearby(lines, fuzzy, radius, offset + 1, afterBelow)

\* mutants of resolvePosition: the lines of `order` are tried one after the other
RECURSIVE tryInOrder(_, _, _, _, _, _)
tryInOrder(lines, fuzzy, radius, order, k, done) ==
    IF k > Len(order)
    THEN [probes |-> done,
          outcome |-> SymbolResolutionError(
              fuzzy.symbolName, fuzzy.lineHint,
              Max({1, fuzzy.lineHint - radius}),
              Min({Len(lines), fuzzy.lineHint + radius}))]
    ELSE LET p == Probe(lines, order[k], fuzzy)
         IN IF p.found # Null
            THEN [probes |-> Append(done, p), outcome |-> Position(order[k], p.found)]
            ELSE tryInOrder(lines, fuzzy, radius, order, k + 1, Append(done, p))

\* the lines at distance d of targetLine that exist, `first` side first
Pair(lines, targetLine, d, first) ==
    LET above == IF targetLine - d >= 0 THEN <<targetLine - d>> ELSE <<>>
        below == IF targetLine + d < Len(lines) THEN <<targetLine + d>> ELSE <<>>
    IN IF first = "above" THEN above \o below ELSE below \o above

RECURSIVE Outward(_, _, _, _, _)
Outward(lines, targetLine, d, radius, first) ==
    IF d > radius THEN <<>>
    ELSE Pair(lines, targetLine, d, first) \o Outward(lines, targetLine, d + 1, radius, first)

RECURSIVE Inward(_, _, _)
Inward(lines, targetLine, d) ==
    IF d < 1 THEN <<>>
    ELSE Pair(lines, targetLine, d, "above") \o Inward(lines, targetLine, d - 1)

\* mutant: at each offset the line below is checked before the line above
resolvePosition_BelowFirst(fileContent, fuzzy, radius) ==
    LET lines == Split(fileContent)
        targetLine == fuzzy.lineHint - 1
    IN tryInOrder(lines, fuzzy, radius,
                  <<targetLine>> \o Outward(lines, targetLine, 1, radius, "below"), 1, <<>>)

\* mutant: the fallback loop runs from offset = lineSearchRadius down to 1
resolvePosition_FarFirst(fileContent, fuzzy, radius) ==
    LET lines == Split(fileContent)
        targetLine == fuzzy.lineHint - 1
    IN tryInOrder(lines, fuzzy, radius,
                  <<targetLine>> \o Inward(lines, targetLine, radius), 1, <<>>)

\* mutant: the fallback loop stops one offset early (offset < lineSearchRadius)
resolvePosition_ShortLoop(fileContent, fuzzy, radius) ==
    LET lines == Split(fileContent)
        targetLine == fuzzy.lineHint - 1
        searched == IF radius > 0 THEN radius - 1 ELSE 0
        r == tryInOrder(lines, fuzzy, radius,
                        <<targetLine>> \o Outward(lines, targetLine, 1, searched, "above"),
                        1, <<>>)
    IN r

RECURSIVE Ascending(_, _, _)
Ascending(lines, from, to) ==
    IF from > to THEN <<>>
    ELSE (IF from >= 0 /\ from < Len(lines) THEN <<from>> ELSE <<>>)
         \o Ascending(lines, from + 1, to)

\* mutant: after the hinted line the window is scanned from its first line to its last
resolvePosition_TopDown(fileContent, fuzzy, radius) ==
    LET lines == Split(fileContent)
        targetLine == fuzzy.lineHint - 1
    IN tryInOrder(lines, fuzzy, radius,
                  <<targetLine>> \o Ascending(lines, targetLine - radius, targetLine + radius),
                  1, <<>>)

\* mutant: the 1-based lineHint is used as the 0-based index (no - 1)
resolvePosition_NoConversion(fileContent, fuzzy, radius) ==
    LET lines == Split(fileContent)
        targetLine == fuzzy.lineHint
    IN tryInOrder(lines, fuzzy, radius,
                  <<targetLine>> \o Outward(lines, targetLine, 1, radius, "above"), 1, <<>>)

resolvePosition(fileContent, fuzzy, radius) ==
    LET lines == Split(fileContent)
        targetLine == fuzzy.lineHint - 1
        exact == Probe(lines, targetLine, fuzzy)
    IN IF exact.found # Null
       THEN [probes |-> <<exact>>, outcome |-> Position(targetLine, exact.found)]
       ELSE scanNearby(lines, fuzzy, radius, 1, <<exact>>)

----------------------------------------------------------------------------
(* SymbolResolver.offsetToPosition.  `for (const char of content)` visits  *)
(* the content character by character: a surrogate pair is one visit.      *)

CharWidth(s, i) ==
    IF s[i] = HI /\ i + 1 <= Len(s) /\ s[i + 1] = LO THEN 2 ELSE 1

RECURSIVE walkContent(_, _, _, _, _, _)
walkContent(s, i, offset, line, character, currentOffset) ==
    IF i > Len(s) \/ currentOffset = offset
    THEN [line |-> line, character |-> character]
    ELSE IF s[i] = LF
         THEN walkContent(s, i + 1, offset, line + 1, 0, currentOffset + 1)
         ELSE walkContent(s, i + CharWidth(s, i), offset, line, character + 1,
                          currentOffset + 1)

\* mutant: a '\n' resets character but line++ is missing
RECURSIVE walkContentNoLine(_, _, _, _, _, _)
walkContentNoLine(s, i, offset, line, character, currentOffset) ==
    IF i > Len(s) \/ currentOffset = offset
    THEN [line |-> line, character |-> character]
    ELSE IF s[i] = LF
         THEN walkContentNoLine(s, i + 1, offset, line, 0, currentOffset + 1)
         ELSE walkContentNoLine(s, i + CharWidth(s, i), offset, line, character + 1,
                                currentOffset + 1)

offsetToPosition_NoLine(s, offset) == walkContentNoLine(s, 1, offset, 0, 0, 0)

offsetToPosition(s, offset) == walkContent(s, 1, offset, 0, 0, 0)

----------------------------------------------------------------------------
(* SymbolResolver.findExactText *)

RECURSIVE findOccurrences(_, _, _, _)
findOccurrences(s, searchText, searchIndex, occurrences) ==
    IF ~(searchIndex < Len(s)) THEN occurrences
    ELSE LET foundIndex == IndexOf(s, searchText, searchIndex)
         IN IF foundIndex = -1 THEN occurrences
            ELSE findOccurrences(s, searchText, foundIndex + 1,
                                 Append(occurrences, foundIndex))

\* mutant: the scan resumes after the end of a match, so overlapping occurrences
\* are not counted
RECURSIVE findOccurrencesNoOverlap(_, _, _, _)
findOccurrencesNoOverlap(s, searchText, searchIndex, occurrences) ==
    IF ~(searchIndex < Len(s)) THEN occurrences
    ELSE LET foundIndex == IndexOf(s, searchText, searchIndex)
         IN IF foundIndex = -1 THEN occurrences
            ELSE findOccurrencesNoOverlap(s, searchText,
                                          foundIndex + Max({1, Len(searchText)}),
                                          Append(occurrences, foundIndex))

findExactText_NoOverlap(fileContent, searchText) ==
    LET occurrences == findOccurrencesNoOverlap(fileContent, searchText, 0, <<>>)
    IN IF Len(occurrences) = 0
       THEN [ok |-> FALSE, name |-> "Error", message |-> "Text not found", count |-> 0]
       ELSE IF Len(occurrences) > 1
       THEN [ok |-> FALSE, name |-> "Error", message |-> "Text appears N times",
             count |-> Len(occurrences)]
       ELSE [ok |-> TRUE,
             start |-> offsetToPosition(fileContent, occurrences[1]),
             end |-> offsetToPosition(fileContent, occurrences[1] + Len(searchText))]

findExactText(fileContent, searchText) ==
    LET occurrences == findOccurrences(fileContent, searchText, 0, <<>>)
    IN IF Len(occurrences) = 0
       THEN [ok |-> FALSE, name |-> "Error", message |-> "Text not found", count |-> 0]
       ELSE IF Len(occurrences) > 1
       THEN [ok |-> FALSE, name |-> "Error", message |-> "Text appears N times",
             count |-> Len(occurrences)]
       ELSE LET startOffset == occurrences[1]
                endOffset == startOffset + Len(searchText)
            IN [ok |-> TRUE,
                start |-> offsetToPosition(fileContent, startOffset),
                end |-> offsetToPosition(fileContent, endOffset)]

----------------------------------------------------------------------------
(* The state machine: a resolver constructed over a file, and calls on it. *)

\* config?.lineSearchRadius ?? 2
DefaultRadius == 2

NoCall == [op |-> "none"]
NoResult == [ok |-> FALSE, name |-> "none"]

\* the callers of the resolver that may be in flight at once
Callers == {"c1", "c2"}
FreeTask == [state |-> "free"]
NotInstalled == [installed |-> FALSE]

\* no caller in flight, no handler running, no driver installed
ServerIdle ==
    /\ tasks = [c \in Callers |-> FreeTask]
    /\ trace = <<>>
    /\ now = 0
    /\ issuedIds = <<>>
    /\ driver = NotInstalled

\* new SymbolResolver(fs), without a config
NoConfig == [present |-> FALSE]

\* new SymbolResolver(fs, {}), a config without the lineSearchRadius field
EmptyConfig == [present |-> TRUE]

\* new SymbolResolver(fs, {lineSearchRadius: radius})
WithRadius(radius) == [present |-> TRUE, lineSearchRadius |-> radius]

ExplicitConfigs == {WithRadius(radius) : radius \in 0..MaxRadius}

ResolverConfigs == {NoConfig, EmptyConfig} \cup ExplicitConfigs

\* mutant: the default is taken for every falsy value (||), so 0 becomes the default
SymbolResolver_FalsyDefault(config_) ==
    IF config_.present /\ "lineSearchRadius" \in DOMAIN config_ /\ config_.lineSearchRadius # 0
    THEN config_.lineSearchRadius
    ELSE DefaultRadius

\* constructor: this.lineSearchRadius = config?.lineSearchRadius ?? 2
SymbolResolver(config_) ==
    IF config_.present /\ "lineSearchRadius" \in DOMAIN config_
    THEN config_.lineSearchRadius
    ELSE DefaultRadius

Fuzzies ==
    [symbolName : SymbolNames, lineHint : 1..MaxLineHint, orderHint : 0..MaxOrderHint]

\* new SymbolResolver(fs, {lineSearchRadius}) over a file of lines
Init ==
    /\ content \in LineContents
    /\ config \in ExplicitConfigs
    /\ lineSearchRadius = SymbolResolver(config)
    /\ pc = "idle"
    /\ call = NoCall
    /\ probes = <<>>
    /\ result = NoResult
    /\ ServerIdle

\* await resolver.resolvePosition(uri, fuzzy)
ResolvePosition(fuzzy) ==
    /\ pc = "idle"
    /\ LET r == resolvePosition(content, fuzzy, lineSearchRadius)
       IN /\ probes' = r.probes
          /\ result' = r.outcome
    /\ call' = [op |-> "resolvePosition", fuzzy |-> fuzzy]
    /\ pc' = "done"
    /\ UNCHANGED <<content, lineSearchRadius, config>>
    /\ UNCHANGED serverVars

\* await resolver.findExactText(uri, searchText)
FindExactText(searchText) ==
    /\ pc = "idle"
    /\ result' = findExactText(content, searchText)
    /\ call' = [op |-> "findExactText", searchText |-> searchText]
    /\ pc' = "done"
    /\ UNCHANGED <<content, lineSearchRadius, config, probes>>
    /\ UNCHANGED serverVars

\* the caller takes the outcome; the resolver keeps nothing of the call
Return ==
    /\ pc = "done"
    /\ pc' = "idle"
    /\ call' = NoCall
    /\ probes' = <<>>
    /\ result' = NoResult
    /\ UNCHANGED <<content, lineSearchRadius, config>>
    /\ UNCHANGED serverVars

Next ==
    \/ \E fuzzy \in Fuzzies : ResolvePosition(fuzzy)
    \/ Return

Spec == Init /\ [][Next]_vars

\* new SymbolResolver(fs) over a file that may hold two-unit characters
InitFind ==
    /\ content \in FindContents
    /\ config = NoConfig
    /\ lineSearchRadius = SymbolResolver(config)
    /\ pc = "idle"
    /\ call = NoCall
    /\ probes = <<>>
    /\ result = NoResult
    /\ ServerIdle

NextFind ==
    \/ \E searchText \in SearchTexts : FindExactText(searchText)
    \/ Return

SpecFind == InitFind /\ [][NextFind]_vars

----------------------------------------------------------------------------
(* What the properties below speak of, stated on the content itself and    *)
(* not through the resolver's own scan.                                    *)

IsResolve == pc = "done" /\ call.op = "resolvePosition"
IsFind == pc = "done" /\ call.op = "findExactText"

\* every start offset at which `text` occurs in s, overlapping ones included
Occurrences(s, text) ==
    {i \in 0..(Len(s) - Len(text)) : Slice(s, i, i + Len(text)) = text}

\* the k-th smallest (0-based) element of S
KthSmallest(S, k) == CHOOSE x \in S : Cardinality({y \in S : y < x}) = k

\* the 1-based indices of the '\n' of s; each line separator holds exactly one
Newlines(s) == {i \in 1..Len(s) : s[i] = LF}
LineCount(s) == Cardinality(Newlines(s)) + 1

\* the offset at which line k (0-based) of s starts, and its text without the
\* separator that ends it
LineStart(s, k) == IF k = 0 THEN 0 ELSE KthSmallest(Newlines(s), k - 1)
LineEnd(s, k) ==
    LET stop == IF k = LineCount(s) - 1 THEN Len(s) ELSE KthSmallest(Newlines(s), k) - 1
    IN IF k < LineCount(s) - 1 /\ stop > LineStart(s, k) /\ s[stop] = CR
       THEN stop - 1 ELSE stop
LineText(s, k) == Slice(s, LineStart(s, k), LineEnd(s, k))

\* line `index` exists in s and holds the occurrence the fuzzy position asks for
HasOccurrence(s, index, fuzzy) ==
    /\ index >= 0 /\ index < LineCount(s)
    /\ Cardinality(Occurrences(LineText(s, index), fuzzy.symbolName)) >= fuzzy.orderHint + 1

\* the position of that occurrence
OccurrenceAt(s, index, fuzzy) ==
    Position(index,
             KthSmallest(Occurrences(LineText(s, index), fuzzy.symbolName), fuzzy.orderHint))

TargetLine == call.fuzzy.lineHint - 1

----------------------------------------------------------------------------
(* C1: when the hinted line (index lineHint - 1) holds at least            *)
(* orderHint + 1 occurrences of symbolName, resolvePosition returns that   *)
(* line with the offset of that occurrence, for every radius and whatever  *)
(* the other lines hold, and it searches no other line.                    *)
C1_HintedLineWins ==
    (IsResolve /\ HasOccurrence(content, TargetLine, call.fuzzy)) =>
        /\ result = OccurrenceAt(content, TargetLine, call.fuzzy)
        /\ Len(probes) = 1

\* the hinted line matches at a later offset than the line above it, which matches too,
\* and the radius reaches that line
C1_Witness ==
    /\ IsResolve
    /\ lineSearchRadius >= 1
    /\ HasOccurrence(content, TargetLine, call.fuzzy)
    /\ HasOccurrence(content, TargetLine - 1, call.fuzzy)
    /\ result.ok /\ result.line = TargetLine /\ result.character > 0
    /\ OccurrenceAt(content, TargetLine - 1, call.fuzzy).character = 0

(* C2: each findSymbolInLine invocation returns the orderHint-th smallest  *)
(* start offset of symbolName on its line, overlapping occurrences         *)
(* counted, when the line has at least orderHint + 1 of them, and no match *)
(* otherwise.                                                              *)
C2_KthOccurrence ==
    IsResolve =>
        \A k \in 1..Len(probes) :
            probes[k].found =
                IF HasOccurrence(content, probes[k].index, call.fuzzy)
                THEN OccurrenceAt(content, probes[k].index, call.fuzzy).character
                ELSE Null

\* "aa" is found at offset 1 of a line as its second occurrence: it overlaps the first
C2_Witness ==
    /\ IsResolve
    /\ call.fuzzy.symbolName = <<"a", "a">>
    /\ call.fuzzy.orderHint = 1
    /\ \E k \in 1..Len(probes) :
        /\ probes[k].found = 1
        /\ Occurrences(LineText(content, probes[k].index), <<"a", "a">>) = {0, 1}

(* C3: resolvePosition fails, with a SymbolResolutionError, exactly when   *)
(* no line of the file within lineSearchRadius of the hinted line holds    *)
(* the requested occurrence; blank lines and indices outside the file are  *)
(* no match and no error of their own.                                     *)
C3_FailsIffNoMatchInWindow ==
    IsResolve =>
        /\ result.ok = FALSE <=>
              \A index \in (TargetLine - lineSearchRadius)..(TargetLine + lineSearchRadius) :
                  ~HasOccurrence(content, index, call.fuzzy)
        /\ result.ok = FALSE => result.name = "SymbolResolutionError"

\* a hint past the last line of the file resolves to a match on the last line, with a
\* blank line in between
C3_Witness ==
    /\ IsResolve
    /\ TargetLine >= LineCount(content)
    /\ LineCount(content) >= 2
    /\ LineText(content, LineCount(content) - 1) = <<>>
    /\ result.ok /\ result.line = LineCount(content) - 2

(* C4: when the hinted line has no match and the lines at the same         *)
(* distance d <= radius above and below both have one, while no nearer     *)
(* line has, the position on the line above is returned.                   *)
C4_AboveWinsTie ==
    IsResolve =>
        \A d \in 1..lineSearchRadius :
            (/\ HasOccurrence(content, TargetLine - d, call.fuzzy)
             /\ HasOccurrence(content, TargetLine + d, call.fuzzy)
             /\ \A e \in 0..(d - 1) :
                    /\ ~HasOccurrence(content, TargetLine - e, call.fuzzy)
                    /\ ~HasOccurrence(content, TargetLine + e, call.fuzzy))
            => result = OccurrenceAt(content, TargetLine - d, call.fuzzy)

\* a tie in which the two lines match at different offsets
C4_Witness ==
    /\ IsResolve
    /\ ~HasOccurrence(content, TargetLine, call.fuzzy)
    /\ \E d \in 1..lineSearchRadius :
        /\ HasOccurrence(content, TargetLine - d, call.fuzzy)
        /\ HasOccurrence(content, TargetLine + d, call.fuzzy)
        /\ OccurrenceAt(content, TargetLine - d, call.fuzzy).character
             # OccurrenceAt(content, TargetLine + d, call.fuzzy).character
        /\ result.ok /\ result.line = TargetLine - d

(* C5: a position resolved with radius r is the position resolved with     *)
(* every radius r' >= r, for the same content and fuzzy position.          *)
C5_RadiusMonotone ==
    (IsResolve /\ result.ok) =>
        \A wider \in lineSearchRadius..(MaxRadius + 1) :
            resolvePosition(content, call.fuzzy, wider).outcome = result

\* a match found off the hinted line, with a still nearer-to-farther choice left to a
\* wider radius: another matching line lies just outside the window
C5_Witness ==
    /\ IsResolve
    /\ result.ok /\ result.line # TargetLine
    /\ lineSearchRadius < MaxRadius
    /\ \/ HasOccurrence(content, TargetLine - lineSearchRadius - 1, call.fuzzy)
       \/ HasOccurrence(content, TargetLine + lineSearchRadius + 1, call.fuzzy)

(* C6: a failed resolvePosition carries symbolName as given, the caller's  *)
(* 1-based lineHint, and the searched range max(1, lineHint - radius) to   *)
(* min(lineCount, lineHint + radius).                                      *)
C6_FailureFields ==
    (IsResolve /\ ~result.ok) =>
        /\ DOMAIN result = {"ok", "name", "symbolName", "lineHint", "reason"}
        /\ result.symbolName = call.fuzzy.symbolName
        /\ result.lineHint = call.fuzzy.lineHint
        /\ result.reason.from = Max({1, call.fuzzy.lineHint - lineSearchRadius})
        /\ result.reason.to = Min({LineCount(content), call.fuzzy.lineHint + lineSearchRadius})

\* a failure whose range is cut at both ends: at line 1 and at the last line
C6_Witness ==
    /\ IsResolve /\ ~result.ok
    /\ call.fuzzy.lineHint - lineSearchRadius < 1
    /\ call.fuzzy.lineHint + lineSearchRadius > LineCount(content)
    /\ LineCount(content) >= 2
    /\ result.reason = [from |-> 1, to |-> LineCount(content)]

----------------------------------------------------------------------------
\* s from index i on, with '\r\n' in place of the '\n' at the indices of `at`
RECURSIVE WithCrlf(_, _, _)
WithCrlf(s, i, at) ==
    IF i > Len(s) THEN <<>>
    ELSE (IF i \in at THEN <<CR, LF>> ELSE <<s[i]>>) \o WithCrlf(s, i + 1, at)

(* C10: replacing any subset of the '\n' of a content without '\r' by      *)
(* '\r\n' changes nothing of what resolvePosition returns or throws: not   *)
(* the outcome kind, the position, nor the range reported on failure.      *)
C10_LineEndingIndependent ==
    (IsResolve /\ \A i \in 1..Len(content) : content[i] # CR) =>
        \A at \in SUBSET Newlines(content) :
            resolvePosition(WithCrlf(content, 1, at), call.fuzzy, lineSearchRadius).outcome
                = result

\* a match on the third line of a file, whose separators can each be '\n' or '\r\n'
C10_Witness ==
    /\ IsResolve
    /\ \A i \in 1..Len(content) : content[i] # CR
    /\ Cardinality(Newlines(content)) >= 2
    /\ result.ok /\ result.line = 2 /\ result.character = 1

----------------------------------------------------------------------------
(* findExactText, on contents that may hold two-unit characters.           *)

\* the offset of a position: the start of its line plus its character
PositionToOffset(s, position) ==
    IF position.line < LineCount(s)
    THEN LineStart(s, position.line) + position.character
    ELSE Len(s) + position.character

\* (line, character) lexicographic order
PositionLeq(p, q) == p.line < q.line \/ (p.line = q.line /\ p.character <= q.character)

(* C7: for a non-empty literalText occurring N times in the content,       *)
(* overlaps counted, findExactText fails with 'Text not found' when N = 0, *)
(* fails with 'Text appears N times' stating exactly N when N >= 2, and    *)
(* returns a range when N = 1, and only then.                              *)
C7_OutcomeByCount ==
    (IsFind /\ call.searchText # <<>>) =>
        LET n == Cardinality(Occurrences(content, call.searchText))
        IN /\ n = 0 => (~result.ok /\ result.message = "Text not found")
           /\ n >= 2 => (/\ ~result.ok
                         /\ result.message = "Text appears N times"
                         /\ result.count = n)
           /\ n = 1 <=> result.ok

\* three occurrences, each overlapping the next
C7_Witness ==
    /\ IsFind
    /\ Len(call.searchText) = 2
    /\ Occurrences(content, call.searchText) = {0, 1, 2}
    /\ ~result.ok /\ result.count = 3

(* C8: the content between the offsets of start and end of a range that   *)
(* findExactText returned is literalText.                                  *)
C8_RoundTrip ==
    (IsFind /\ result.ok) =>
        Slice(content, PositionToOffset(content, result.start),
                       PositionToOffset(content, result.end)) = call.searchText

(* C9: start <= end, in (line, character) lexicographic order, in every    *)
(* range findExactText returns.                                            *)
C9_StartBeforeEnd ==
    (IsFind /\ result.ok) => PositionLeq(result.start, result.end)

\* a text that ends with a line break, found past the start of the first line: the end
\* has the smaller character
C9_Witness ==
    /\ IsFind /\ result.ok
    /\ result.end.line > result.start.line
    /\ result.end.character < result.start.character

----------------------------------------------------------------------------
(* Resolver calls from the call to its settlement.  A call invokes          *)
(* fs.readFile and is suspended at that await; when the read settles the   *)
(* rest of the method runs without another suspension.  The resolver holds *)
(* fs and lineSearchRadius and nothing else.                               *)

MaxCallLen == 2      \* longest content of the file while calls are in flight
MaxCallHint == 2     \* largest lineHint of those calls

CallContents == SeqsUpTo({"a", LF}, MaxCallLen)
CallFuzzies == [symbolName : {<<"a">>}, lineHint : 1..MaxCallHint, orderHint : {0}]
CallTexts == {<<"a">>, <<LF>>}
CallRadii == {0, 1}

\* what fs.readFile may reject with
IOErrors ==
    {[ok |-> FALSE, name |-> "Error", message |-> "ENOENT"],
     [ok |-> FALSE, name |-> "Error", message |-> "EACCES"]}

\* how the promise of fs.readFile settles
ReadOk(fileContent) == [ok |-> TRUE, content |-> fileContent]
ReadFailed(error) == [ok |-> FALSE, error |-> error]

\* a read failure caught, reported as a failed resolution, after a second attempt
resolvePositionCall_Wrapped(read, fuzzy, radius) ==
    IF read.ok
    THEN LET scan == resolvePosition(read.content, fuzzy, radius)
         IN [reads |-> 1, probes |-> scan.probes, outcome |-> scan.outcome]
    ELSE [reads |-> 2, probes |-> <<>>,
          outcome |-> SymbolResolutionError(fuzzy.symbolName, fuzzy.lineHint,
                                            fuzzy.lineHint, fuzzy.lineHint)]

\* resolvePosition as a whole, given how its read settles: a rejected await throws
\* out of the method, which has no try around it
resolvePositionCall(read, fuzzy, radius) ==
    IF read.ok
    THEN LET scan == resolvePosition(read.content, fuzzy, radius)
         IN [reads |-> 1, probes |-> scan.probes, outcome |-> scan.outcome]
    ELSE [reads |-> 1, probes |-> <<>>, outcome |-> read.error]

\* findExactText as a whole, given how its read settles
findExactTextCall(read, searchText) ==
    IF read.ok
    THEN [reads |-> 1, probes |-> <<>>, outcome |-> findExactText(read.content, searchText)]
    ELSE [reads |-> 1, probes |-> <<>>, outcome |-> read.error]

\* another caller's arguments, where one is in flight with the same method
OtherArg(c) ==
    LET others == {d \in Callers \ {c} :
                       tasks[d].state # "free" /\ tasks[d].op = tasks[c].op}
    IN IF others = {} THEN tasks[c].arg ELSE tasks[CHOOSE d \in others : TRUE].arg

\* the content another caller's read returned, where one has settled
OtherContent(c, read) ==
    LET others == {d \in Callers \ {c} : tasks[d].state = "done" /\ tasks[d].read.ok}
    IN IF others = {} \/ ~read.ok THEN read ELSE tasks[CHOOSE d \in others : TRUE].read

Settle(c, read, arg) ==
    IF tasks[c].op = "resolvePosition"
    THEN resolvePositionCall(read, arg, lineSearchRadius)
    ELSE findExactTextCall(read, arg)

\* the arguments kept in a field of the resolver across the await
Continuation_SharedArguments(c, read) == Settle(c, read, OtherArg(c))

\* the content kept in a field of the resolver and reused by later calls
Continuation_CachedContent(c, read) == Settle(c, OtherContent(c, read), tasks[c].arg)

\* what caller c's call does once its read has settled: it works on its own
\* parameters and on the content its own read returned
Continuation(c, read) == Settle(c, read, tasks[c].arg)

InitCalls ==
    /\ content \in CallContents
    /\ config \in {WithRadius(radius) : radius \in CallRadii}
    /\ lineSearchRadius = SymbolResolver(config)
    /\ pc = "idle"
    /\ call = NoCall
    /\ probes = <<>>
    /\ result = NoResult
    /\ ServerIdle

CallUnchanged == UNCHANGED <<pc, call, probes, result, trace, now, issuedIds, driver>>

\* caller c calls the method: fs.readFile is invoked and the call is suspended
BeginCall(c, op, arg) ==
    /\ tasks[c].state = "free"
    /\ tasks' = [tasks EXCEPT ![c] = [state |-> "reading", op |-> op, arg |-> arg,
                                      reads |-> 1]]
    /\ UNCHANGED <<content, lineSearchRadius, config>>
    /\ CallUnchanged

FinishCall(c, read) ==
    LET done == Continuation(c, read)
    IN tasks' = [tasks EXCEPT ![c] = [state |-> "done", op |-> tasks[c].op,
                                      arg |-> tasks[c].arg, read |-> read,
                                      reads |-> done.reads, probes |-> done.probes,
                                      outcome |-> done.outcome]]

\* the read of caller c resolves with what the file holds now
ReadResolves(c) ==
    /\ tasks[c].state = "reading"
    /\ FinishCall(c, ReadOk(content))
    /\ UNCHANGED <<content, lineSearchRadius, config>>
    /\ CallUnchanged

\* the read of caller c rejects
ReadRejects(c, error) ==
    /\ tasks[c].state = "reading"
    /\ FinishCall(c, ReadFailed(error))
    /\ UNCHANGED <<content, lineSearchRadius, config>>
    /\ CallUnchanged

\* caller c has taken the outcome of its call
CallReturns(c) ==
    /\ tasks[c].state = "done"
    /\ tasks' = [tasks EXCEPT ![c] = FreeTask]
    /\ UNCHANGED <<content, lineSearchRadius, config>>
    /\ CallUnchanged

\* the file changes on disk
FileChanges(fileContent) ==
    /\ fileContent # content
    /\ content' = fileContent
    /\ UNCHANGED <<lineSearchRadius, config, tasks>>
    /\ CallUnchanged

NextCalls ==
    \/ \E c \in Callers, fuzzy \in CallFuzzies : BeginCall(c, "resolvePosition", fuzzy)
    \/ \E c \in Callers, searchText \in CallTexts : BeginCall(c, "findExactText", searchText)
    \/ \E c \in Callers : ReadResolves(c)
    \/ \E c \in Callers, error \in IOErrors : ReadRejects(c, error)
    \/ \E c \in Callers : CallReturns(c)
    \/ \E fileContent \in CallContents : FileChanges(fileContent)

SpecCalls == InitCalls /\ [][NextCalls]_vars

----------------------------------------------------------------------------
(* What a call that ran alone on a content without surrogate pairs returns, *)
(* stated on the content.                                                  *)

\* the nearest line within the radius that holds the occurrence, the upper one of two
ExpectedPosition(s, fuzzy, radius) ==
    LET target == fuzzy.lineHint - 1
        near == {d \in 0..radius : \/ HasOccurrence(s, target - d, fuzzy)
                                   \/ HasOccurrence(s, target + d, fuzzy)}
    IN IF near = {}
       THEN SymbolResolutionError(fuzzy.symbolName, fuzzy.lineHint,
                                  Max({1, fuzzy.lineHint - radius}),
                                  Min({LineCount(s), fuzzy.lineHint + radius}))
       ELSE IF HasOccurrence(s, target - Min(near), fuzzy)
            THEN OccurrenceAt(s, target - Min(near), fuzzy)
            ELSE OccurrenceAt(s, target + Min(near), fuzzy)

\* the line and column of an offset
PositionOf(s, offset) ==
    LET line == Cardinality({i \in Newlines(s) : i <= offset})
    IN [line |-> line, character |-> offset - LineStart(s, line)]

ExpectedRange(s, text) ==
    LET found == Occurrences(s, text)
    IN IF Cardinality(found) = 1
       THEN [ok |-> TRUE, start |-> PositionOf(s, Min(found)),
             end |-> PositionOf(s, Min(found) + Len(text))]
       ELSE [ok |-> FALSE, name |-> "Error",
             message |-> IF found = {} THEN "Text not found" ELSE "Text appears N times",
             count |-> Cardinality(found)]

\* the outcome of the settled call of caller c had it run alone on what it read
Alone(c) ==
    IF ~tasks[c].read.ok THEN tasks[c].read.error
    ELSE IF tasks[c].op = "resolvePosition"
         THEN ExpectedPosition(tasks[c].read.content, tasks[c].arg, lineSearchRadius)
         ELSE ExpectedRange(tasks[c].read.content, tasks[c].arg)

Settled(c) == tasks[c].state = "done"

(* C11: when readFile fails, resolvePosition and findExactText fail with   *)
(* that very error, not with a SymbolResolutionError nor with a 'Text not  *)
(* found' error; no line is scanned and readFile is not called again.      *)
C11_ReadErrorPropagates ==
    \A c \in Callers :
        (Settled(c) /\ ~tasks[c].read.ok) =>
            /\ tasks[c].outcome = tasks[c].read.error
            /\ tasks[c].probes = <<>>
            /\ tasks[c].reads = 1

\* a resolvePosition and a findExactText whose reads failed with different errors
C11_Witness ==
    /\ Settled("c1") /\ tasks["c1"].op = "resolvePosition"
    /\ Settled("c2") /\ tasks["c2"].op = "findExactText"
    /\ ~tasks["c1"].read.ok /\ ~tasks["c2"].read.ok
    /\ tasks["c1"].outcome.message = "ENOENT"
    /\ tasks["c2"].outcome.message = "EACCES"

(* C12: each call invokes readFile exactly once and its outcome is the one *)
(* its arguments, the radius and the content that read returned determine: *)
(* calls with the same arguments that read the same content return the     *)
(* same, and a call that read the file after it changed returns what the   *)
(* new content gives, not what an earlier call saw.                        *)
C12_NoCacheNoRetry ==
    \A c \in Callers :
        Settled(c) =>
            /\ tasks[c].reads = 1
            /\ tasks[c].outcome = Alone(c)
            /\ \A d \in Callers :
                   (Settled(d) /\ tasks[d].op = tasks[c].op /\ tasks[d].arg = tasks[c].arg
                       /\ tasks[d].read = tasks[c].read)
                       => tasks[d].outcome = tasks[c].outcome

\* the same resolvePosition twice, the file changed in between: the first found the
\* symbol, the second, on the content of now, does not
C12_Witness ==
    /\ Settled("c1") /\ Settled("c2")
    /\ tasks["c1"].op = "resolvePosition" /\ tasks["c2"].op = "resolvePosition"
    /\ tasks["c1"].arg = tasks["c2"].arg
    /\ tasks["c1"].read.ok /\ tasks["c2"].read = ReadOk(content)
    /\ tasks["c1"].read.content # content
    /\ tasks["c1"].outcome.ok /\ ~tasks["c2"].outcome.ok

(* C13: calls in flight at once do not interfere: whatever the order in    *)
(* which their reads settle and however the file changes between the       *)
(* reads, a call that settles while another is in flight or settled        *)
(* returns what it would have returned alone on the content of its own     *)
(* read, and keeps its own arguments.                                      *)
C13_NoInterference ==
    \A c, d \in Callers :
        (c # d /\ Settled(c) /\ tasks[d].state # "free") =>
            /\ tasks[c].outcome = Alone(c)
            /\ tasks[d].state = "done" => tasks[d].outcome = Alone(d)

\* two resolvePosition calls with different line hints, the file changed between their
\* reads, each returning its own line of its own content
C13_Witness ==
    /\ Settled("c1") /\ Settled("c2")
    /\ tasks["c1"].op = "resolvePosition" /\ tasks["c2"].op = "resolvePosition"
    /\ tasks["c1"].arg.lineHint # tasks["c2"].arg.lineHint
    /\ tasks["c1"].read.ok /\ tasks["c2"].read.ok
    /\ tasks["c1"].read # tasks["c2"].read
    /\ tasks["c1"].outcome.ok /\ tasks["c2"].outcome.ok
    /\ tasks["c1"].outcome.line # tasks["c2"].outcome.line

----------------------------------------------------------------------------
(* formatting.ts: what the handlers use.  A uri is a sequence of           *)
(* characters; 'file://' stands in it as one unit.                         *)

BACKSLASH == "\\"
FileScheme == "file://"

Uris ==
    {<<"f">>, <<"d", BACKSLASH, "f">>, <<".", ".", "/", "f">>, <<"v", ".", ".", "f">>,
     <<FileScheme, "/", "f">>, <<FileScheme, ".", ".", "f">>}

\* uri.includes('..')
includesDotDot(uri) == \E i \in 1..(Len(uri) - 1) : uri[i] = "." /\ uri[i + 1] = "."

\* every uri comes back normalised
normalizeUri_NoGuard(uri) ==
    [ok |-> TRUE, uri |-> [i \in 1..Len(uri) |-> IF uri[i] = BACKSLASH THEN "/" ELSE uri[i]]]

normalizeUri(uri) ==
    IF includesDotDot(uri)
    THEN [ok |-> FALSE,
          error |-> [ok |-> FALSE, name |-> "Error",
                     message |-> "URI could not include \"..\" operator"]]
    ELSE IF Len(uri) >= 1 /\ uri[1] = FileScheme
    THEN [ok |-> TRUE, uri |-> uri]
    ELSE [ok |-> TRUE,
          uri |-> [i \in 1..Len(uri) |-> IF uri[i] = BACKSLASH THEN "/" ELSE uri[i]]]

\* `edit-${Date.now()}`
generateEditId(time) == <<"edit-", time>>

\* content and structuredContent both carry `value`; isError is left out
makeToolResult(value) == [isError |-> FALSE, structuredContent |-> value]

----------------------------------------------------------------------------
(* installMcpLspDriver.  The capabilities are the set of the optional      *)
(* members given; fileAccess is always there.  The server belongs to the   *)
(* caller: registering a name it already holds throws.                     *)

CapabilityNames ==
    {"definition", "references", "hierarchy", "userInteraction", "globalFind",
     "diagnostics", "getWorkspaceDiagnostics", "outline", "onDiagnosticsChanged",
     "getFileTree"}

\* getWorkspaceDiagnostics is a member of the diagnostics provider
CapabilitySets ==
    {caps \in SUBSET CapabilityNames :
         "getWorkspaceDiagnostics" \in caps => "diagnostics" \in caps}

\* registerTools, in the order of its statements
ToolPlan ==
    << [kind |-> "tool", name |-> "goto_definition", needs |-> {"definition"}],
       [kind |-> "tool", name |-> "find_references", needs |-> {"references"}],
       [kind |-> "tool", name |-> "call_hierarchy", needs |-> {"hierarchy"}],
       [kind |-> "tool", name |-> "apply_edit", needs |-> {"userInteraction"}],
       [kind |-> "tool", name |-> "global_find", needs |-> {"globalFind"}],
       [kind |-> "tool", name |-> "global_replace", needs |-> {"globalFind"}] >>

\* registerResources, in the order of its statements; the subscription is the last
\* statement of registerDiagnosticsResources
ResourcePlan ==
    << [kind |-> "resource", name |-> "fileTree", needs |-> {"getFileTree"}],
       [kind |-> "resource", name |-> "filesystem", needs |-> {}],
       [kind |-> "resource", name |-> "file-diagnostics", needs |-> {"diagnostics"}],
       [kind |-> "resource", name |-> "workspace-diagnostics",
        needs |-> {"diagnostics", "getWorkspaceDiagnostics"}],
       [kind |-> "subscription", name |-> "onDiagnosticsChanged",
        needs |-> {"diagnostics", "onDiagnosticsChanged"}],
       [kind |-> "resource", name |-> "file-outline", needs |-> {"outline"}] >>

NamesOf(steps, kind) == {steps[i].name : i \in {j \in 1..Len(steps) : steps[j].kind = kind}}

RegisteredNames == NamesOf(ToolPlan, "tool") \cup NamesOf(ResourcePlan, "resource")

\* what the caller's server holds before the installation
TakenSets == {{}} \cup {{name} : name \in RegisteredNames}

\* the steps of a plan that the capabilities select
Selected(plan, capabilities) == SelectSeq(plan, LAMBDA step : step.needs \subseteq capabilities)

\* global_replace goes with apply_edit
registerTools_ReplaceWithEdit(capabilities) ==
    SelectSeq(ToolPlan, LAMBDA step :
        IF step.name = "global_replace" THEN "userInteraction" \in capabilities
        ELSE step.needs \subseteq capabilities)

registerTools(capabilities) == Selected(ToolPlan, capabilities)
registerResources(capabilities) == Selected(ResourcePlan, capabilities)

\* what the caller's server throws for a name it already holds
AlreadyRegistered(step) == [ok |-> FALSE, name |-> "Error", message |-> <<step.name, " is already registered">>]

\* the steps run one after the other until one throws
RECURSIVE runSteps(_, _, _, _)
runSteps(steps, i, taken, done) ==
    IF i > Len(steps) THEN [threw |-> FALSE, done |-> done]
    ELSE IF steps[i].kind # "subscription" /\ steps[i].name \in taken
    THEN [threw |-> TRUE, done |-> done, error |-> AlreadyRegistered(steps[i])]
    ELSE runSteps(steps, i + 1, taken, Append(done, steps[i]))

ToolsFailed == "Error occured during registration of tools"
ResourcesFailed == "Error occured during registration of resources"

\* what an installation leaves behind: the names registered, the registrations in the
\* order they were made, and the object returned
Installed(capabilities, taken, registered, returned) ==
    [installed |-> TRUE, capabilities |-> capabilities, taken |-> taken,
     tools |-> NamesOf(registered, "tool"),
     resources |-> NamesOf(registered, "resource"),
     subscriptions |-> Cardinality(NamesOf(registered, "subscription")),
     registered |-> registered,
     result |-> returned]

\* mutant: a failure of the tool phase is recorded and the resource phase runs all the same
installMcpLspDriver_KeepGoing(capabilities, taken) ==
    LET tools == runSteps(registerTools(capabilities), 1, taken, <<>>)
        resources == runSteps(registerResources(capabilities), 1, taken, <<>>)
    IN Installed(capabilities, taken, tools.done \o resources.done,
                 IF tools.threw
                 THEN [success |-> FALSE, error |-> tools.error, reason |-> ToolsFailed]
                 ELSE IF resources.threw
                 THEN [success |-> FALSE, error |-> resources.error, reason |-> ResourcesFailed]
                 ELSE [success |-> TRUE])

installMcpLspDriver(capabilities, taken) ==
    LET tools == runSteps(registerTools(capabilities), 1, taken, <<>>)
        resources == runSteps(registerResources(capabilities), 1, taken, <<>>)
    IN IF tools.threw
       THEN Installed(capabilities, taken, tools.done,
                      [success |-> FALSE, error |-> tools.error, reason |-> ToolsFailed])
       ELSE Installed(capabilities, taken, tools.done \o resources.done,
                      IF resources.threw
                      THEN [success |-> FALSE, error |-> resources.error,
                            reason |-> ResourcesFailed]
                      ELSE [success |-> TRUE])

\* the callback given to onDiagnosticsChanged, called with a uri
diagnosticsChanged(uri, capabilities) ==
    LET normalizedUri == normalizeUri(uri)
    IN IF ~normalizedUri.ok
       THEN [trace |-> <<>>, result |-> normalizedUri.error]
       ELSE [trace |->
                 <<[to |-> "sendResourceUpdated",
                    uri |-> <<"lsp://diagnostics/">> \o normalizedUri.uri]>>
                 \o (IF "getWorkspaceDiagnostics" \in capabilities
                     THEN <<[to |-> "sendResourceUpdated",
                             uri |-> <<"lsp://diagnostics/", "workspace">>]>>
                     ELSE <<>>),
             result |-> [ok |-> TRUE]]

InitInstall ==
    /\ content = <<>>
    /\ config = NoConfig
    /\ lineSearchRadius = SymbolResolver(config)
    /\ pc = "idle"
    /\ call = NoCall
    /\ probes = <<>>
    /\ result = NoResult
    /\ ServerIdle

\* installMcpLspDriver({server, capabilities})
Install(capabilities, taken) ==
    /\ pc = "idle"
    /\ ~driver.installed
    /\ driver' = installMcpLspDriver(capabilities, taken)
    /\ UNCHANGED <<content, lineSearchRadius, config, pc, call, probes, result, tasks, trace, now,
                   issuedIds>>

\* the IDE calls the callback it was given
DiagnosticsChanged(uri) ==
    /\ pc = "idle"
    /\ driver.installed /\ driver.subscriptions > 0
    /\ LET sent == diagnosticsChanged(uri, driver.capabilities)
       IN /\ trace' = sent.trace
          /\ result' = sent.result
    /\ call' = [op |-> "diagnosticsChanged", uri |-> uri]
    /\ pc' = "done"
    /\ UNCHANGED <<content, lineSearchRadius, config, probes, tasks, now, issuedIds, driver>>

\* the handler has returned to its caller
HandlerReturns ==
    /\ pc = "done"
    /\ pc' = "idle"
    /\ call' = NoCall
    /\ trace' = <<>>
    /\ result' = NoResult
    /\ UNCHANGED <<content, lineSearchRadius, config, probes, tasks, now, issuedIds, driver>>

NextInstall ==
    \/ \E capabilities \in CapabilitySets, taken \in TakenSets : Install(capabilities, taken)
    \/ \E uri \in Uris : DiagnosticsChanged(uri)
    \/ HandlerReturns

SpecInstall == InitInstall /\ [][NextInstall]_vars

----------------------------------------------------------------------------
(* The tool handlers.  Each is one call from its parameters to the result  *)
(* it returns; what the file read, the provider and the user answer are    *)
(* inputs of the call, and `trace` lists what the handler called.          *)

MaxClock == 1        \* the latest millisecond the clock reaches
MaxEdits == 2        \* the most ids generateEditId hands out in a run

AllCapabilities == CapabilityNames
PositionTools == {"goto_definition", "find_references", "call_hierarchy"}
Directions == {"incoming", "outgoing"}

\* what a provider call gives: its value, an Error, or a thrown value that is no Error
ProviderError == [ok |-> FALSE, name |-> "Error", message |-> "Provider error"]
ThrownString == [ok |-> FALSE, name |-> "string", message |-> "boom"]
ProviderOutcomes ==
    {[ok |-> TRUE, value |-> "value"], [ok |-> FALSE, error |-> ProviderError],
     [ok |-> FALSE, error |-> ThrownString]}

\* what previewAndApplyEdits gives: approved, rejected, or an Error
ApprovalOutcomes ==
    {[ok |-> TRUE, value |-> TRUE], [ok |-> TRUE, value |-> FALSE],
     [ok |-> FALSE, error |-> ProviderError]}

PositionParams(tool) ==
    [uri : Uris, fuzzy : CallFuzzies,
     direction : IF tool = "call_hierarchy" THEN Directions ELSE {"none"}]
EditParams == [uri : Uris, search_text : CallTexts, replace_text : {<<"b">>}]
FindParams == [query : {<<"a">>}]
ReplaceParams == [query : {<<"a">>}, replace_with : {<<"b">>}]

\* the text of an error result; `of` is the thrown value whose message, or whose
\* String() when it is no Error, the text carries
ErrorText(prefix, error) == [prefix |-> prefix, of |-> error]

\* every error prefixed
positionToolCatch_AlwaysPrefixed(error) ==
    [isError |-> TRUE, text |-> ErrorText("Error: ", error),
     structuredContent |-> [error |-> ErrorText("Error: ", error)]]

\* the catch of goto_definition, find_references and call_hierarchy
positionToolCatch(error) ==
    LET message == IF error.name = "SymbolResolutionError"
                   THEN ErrorText("", error)
                   ELSE ErrorText("Error: ", error)
    IN [isError |-> TRUE, text |-> message, structuredContent |-> [error |-> message]]

\* the catch of apply_edit
applyEditCatch(error) ==
    [isError |-> TRUE, text |-> ErrorText("Error: ", error),
     structuredContent |-> [success |-> FALSE, message |-> ErrorText("Error: ", error)]]

\* the catch of global_find
globalFindCatch(error) ==
    [isError |-> TRUE, text |-> ErrorText("Error: ", error),
     structuredContent |-> [error |-> ErrorText("Error: ", error)]]

\* the catch of global_replace
globalReplaceCatch(error) ==
    [isError |-> TRUE, text |-> ErrorText("Error: ", error),
     structuredContent |-> [success |-> FALSE, replacementCount |-> 0,
                            message |-> ErrorText("Error: ", error)]]

ProviderCall(tool, uri, position, direction) ==
    IF tool = "goto_definition"
    THEN [to |-> "provideDefinition", uri |-> uri, position |-> position]
    ELSE IF tool = "find_references"
    THEN [to |-> "provideReferences", uri |-> uri, position |-> position]
    ELSE [to |-> "provideCallHierarchy", uri |-> uri, position |-> position,
          direction |-> direction]

\* the provider asked at the hinted line, without the resolution
positionTool_Unresolved(tool, params, read, provided, radius) ==
    LET uri == normalizeUri(params.uri)
        asking == <<ProviderCall(tool, uri.uri, Position(params.fuzzy.lineHint - 1, 0),
                                 params.direction)>>
    IN IF ~uri.ok THEN [trace |-> <<>>, result |-> positionToolCatch(uri.error)]
       ELSE IF ~provided.ok
       THEN [trace |-> asking, result |-> positionToolCatch(provided.error)]
       ELSE [trace |-> asking, result |-> makeToolResult([snippets |-> provided.value])]

\* the handler of goto_definition, find_references and call_hierarchy
positionTool(tool, params, read, provided, radius) ==
    LET uri == normalizeUri(params.uri)
        resolved == resolvePositionCall(read, params.fuzzy, radius)
        reading == <<[to |-> "readFile", uri |-> uri.uri]>>
        asking == Append(reading, ProviderCall(tool, uri.uri, resolved.outcome,
                                               params.direction))
    IN IF ~uri.ok THEN [trace |-> <<>>, result |-> positionToolCatch(uri.error)]
       ELSE IF ~resolved.outcome.ok
       THEN [trace |-> reading, result |-> positionToolCatch(resolved.outcome)]
       ELSE IF ~provided.ok
       THEN [trace |-> asking, result |-> positionToolCatch(provided.error)]
       ELSE [trace |-> asking, result |-> makeToolResult([snippets |-> provided.value])]

PendingEditOperation(id, uri, range, newText) ==
    [id |-> id, uri |-> uri,
     edits |-> <<[range |-> [start |-> range.start, end |-> range.end],
                  newText |-> newText]>>]

\* the user asked before the text is looked up, with an empty range
applyEdit_PromptFirst(params, read, approval, time) ==
    LET uri == normalizeUri(params.uri)
        nowhere == [start |-> [line |-> 0, character |-> 0],
                    end |-> [line |-> 0, character |-> 0]]
        prompting == <<[to |-> "previewAndApplyEdits",
                        operation |-> PendingEditOperation(generateEditId(time), uri.uri,
                                                           nowhere, params.replace_text)]>>
    IN IF ~uri.ok
       THEN [trace |-> <<>>, issued |-> <<>>, result |-> applyEditCatch(uri.error)]
       ELSE IF ~approval.ok
       THEN [trace |-> prompting, issued |-> <<generateEditId(time)>>,
             result |-> applyEditCatch(approval.error)]
       ELSE [trace |-> prompting, issued |-> <<generateEditId(time)>>,
             result |-> makeToolResult(
                 IF approval.value
                 THEN [success |-> TRUE, message |-> "Edit successfully applied and saved."]
                 ELSE [success |-> FALSE, message |-> "Edit rejected by user."])]

\* the handler of apply_edit
applyEdit(params, read, approval, time) ==
    LET uri == normalizeUri(params.uri)
        range == findExactTextCall(read, params.search_text).outcome
        reading == <<[to |-> "readFile", uri |-> uri.uri]>>
        id == generateEditId(time)
        prompting == Append(reading,
                            [to |-> "previewAndApplyEdits",
                             operation |-> PendingEditOperation(id, uri.uri, range,
                                                                params.replace_text)])
    IN IF ~uri.ok
       THEN [trace |-> <<>>, issued |-> <<>>, result |-> applyEditCatch(uri.error)]
       ELSE IF ~range.ok
       THEN [trace |-> reading, issued |-> <<>>, result |-> applyEditCatch(range)]
       ELSE IF ~approval.ok
       THEN [trace |-> prompting, issued |-> <<id>>,
             result |-> applyEditCatch(approval.error)]
       ELSE [trace |-> prompting, issued |-> <<id>>,
             result |-> makeToolResult(
                 IF approval.value
                 THEN [success |-> TRUE, message |-> "Edit successfully applied and saved."]
                 ELSE [success |-> FALSE, message |-> "Edit rejected by user."])]

\* the handler of global_find
globalFind(params, found) ==
    LET asking == <<[to |-> "globalFind", query |-> params.query]>>
    IN IF ~found.ok THEN [trace |-> asking, result |-> globalFindCatch(found.error)]
       ELSE [trace |-> asking, result |-> makeToolResult([matches |-> found.value])]

\* the handler of global_replace
globalReplace(params, replaced) ==
    LET asking == <<[to |-> "globalReplace", query |-> params.query,
                     replaceWith |-> params.replace_with]>>
    IN IF ~replaced.ok THEN [trace |-> asking, result |-> globalReplaceCatch(replaced.error)]
       ELSE [trace |-> asking,
             result |-> makeToolResult([success |-> TRUE, count |-> replaced.value])]

\* how the handler's read of the file may settle
ToolReads == {ReadOk(content)} \cup {ReadFailed(error) : error \in IOErrors}

\* a driver installed with every capability on a server of its own
InitTools ==
    /\ content \in CallContents
    /\ config = NoConfig
    /\ lineSearchRadius = SymbolResolver(config)
    /\ pc = "idle"
    /\ call = NoCall
    /\ probes = <<>>
    /\ result = NoResult
    /\ tasks = [c \in Callers |-> FreeTask]
    /\ trace = <<>>
    /\ now = 0
    /\ issuedIds = <<>>
    /\ driver = installMcpLspDriver(AllCapabilities, {})

\* a call of goto_definition, find_references or call_hierarchy
PositionToolCall(tool, params, read, provided) ==
    /\ pc = "idle"
    /\ tool \in driver.tools
    /\ LET done == positionTool(tool, params, read, provided, lineSearchRadius)
       IN /\ trace' = done.trace
          /\ result' = done.result
    /\ call' = [op |-> tool, params |-> params, read |-> read, provided |-> provided]
    /\ pc' = "done"
    /\ UNCHANGED <<content, lineSearchRadius, config, probes, tasks, now, issuedIds, driver>>

\* a call of apply_edit
ApplyEditCall(params, read, approval) ==
    /\ pc = "idle"
    /\ "apply_edit" \in driver.tools
    /\ Len(issuedIds) < MaxEdits
    /\ LET done == applyEdit(params, read, approval, now)
       IN /\ trace' = done.trace
          /\ result' = done.result
          /\ issuedIds' = issuedIds \o done.issued
    /\ call' = [op |-> "apply_edit", params |-> params, read |-> read,
                approval |-> approval]
    /\ pc' = "done"
    /\ UNCHANGED <<content, lineSearchRadius, config, probes, tasks, now, driver>>

\* a call of global_find
GlobalFindCall(params, found) ==
    /\ pc = "idle"
    /\ "global_find" \in driver.tools
    /\ LET done == globalFind(params, found)
       IN /\ trace' = done.trace
          /\ result' = done.result
    /\ call' = [op |-> "global_find", params |-> params, provided |-> found]
    /\ pc' = "done"
    /\ UNCHANGED <<content, lineSearchRadius, config, probes, tasks, now, issuedIds, driver>>

\* a call of global_replace
GlobalReplaceCall(params, replaced) ==
    /\ pc = "idle"
    /\ "global_replace" \in driver.tools
    /\ LET done == globalReplace(params, replaced)
       IN /\ trace' = done.trace
          /\ result' = done.result
    /\ call' = [op |-> "global_replace", params |-> params, provided |-> replaced]
    /\ pc' = "done"
    /\ UNCHANGED <<content, lineSearchRadius, config, probes, tasks, now, issuedIds, driver>>

\* a millisecond passes between two calls
Tick ==
    /\ pc = "idle"
    /\ now < MaxClock
    /\ now' = now + 1
    /\ UNCHANGED <<content, lineSearchRadius, config, pc, call, probes, result, tasks, trace,
                   issuedIds, driver>>

NextTools ==
    \/ \E tool \in PositionTools :
          \E params \in PositionParams(tool), read \in ToolReads,
             provided \in ProviderOutcomes : PositionToolCall(tool, params, read, provided)
    \/ \E params \in EditParams, read \in ToolReads, approval \in ApprovalOutcomes :
          ApplyEditCall(params, read, approval)
    \/ \E params \in FindParams, found \in ProviderOutcomes : GlobalFindCall(params, found)
    \/ \E params \in ReplaceParams, replaced \in ProviderOutcomes :
          GlobalReplaceCall(params, replaced)
    \/ Tick
    \/ HandlerReturns

SpecTools == InitTools /\ [][NextTools]_vars

----------------------------------------------------------------------------
(* What the properties of the tool layer speak of.                         *)

Handled(tools) == pc = "done" /\ call.op \in tools
WriteTools == {"apply_edit", "global_replace"}
AllTools == PositionTools \cup WriteTools \cup {"global_find"}

\* where in the trace the handler called one of the given functions
CallsTo(functions) == {i \in 1..Len(trace) : trace[i].to \in functions}
Prompts == CallsTo({"previewAndApplyEdits"})
Reads == CallsTo({"readFile"})
ProviderCalls == CallsTo({"provideDefinition", "provideReferences", "provideCallHierarchy"})

\* the user was asked and said yes
Approved == Prompts # {} /\ call.approval.ok /\ call.approval.value

(* C14: every write tool, apply_edit and global_replace, obtains the       *)
(* user's approval through previewAndApplyEdits before a change is         *)
(* applied, and no tool reports a successful change the user did not       *)
(* approve.                                                                *)
C14_HumanInTheLoop ==
    Handled(WriteTools) =>
        /\ \A i \in CallsTo({"globalReplace"}) : \E j \in Prompts : j < i
        /\ result.structuredContent.success => Approved

(* C15: apply_edit invokes previewAndApplyEdits at most once, only after   *)
(* the file was read and search_text found exactly once in it, with one    *)
(* edit whose range is the range of that occurrence and whose newText is   *)
(* replace_text; the result has success = true exactly when the user       *)
(* approved and is the rejection, success = false with 'Edit rejected by   *)
(* user.', when the user declined; when search_text is missing or          *)
(* ambiguous the user is not asked and the result is an error.             *)
C15_ApplyEditProtocol ==
    Handled({"apply_edit"}) =>
        LET range == ExpectedRange(content, call.params.search_text)
        IN /\ Cardinality(Prompts) <= 1
           /\ \A p \in Prompts :
                  /\ \E r \in Reads : r < p
                  /\ call.read.ok /\ range.ok
                  /\ trace[p].operation.edits =
                         <<[range |-> [start |-> range.start, end |-> range.end],
                            newText |-> call.params.replace_text]>>
           /\ result.structuredContent.success <=> Approved
           /\ (Prompts # {} /\ call.approval.ok /\ ~call.approval.value) =>
                  /\ ~result.isError
                  /\ result.structuredContent =
                         [success |-> FALSE, message |-> "Edit rejected by user."]
           /\ (call.read.ok /\ ~range.ok) => (Prompts = {} /\ result.isError)

\* the text stands once, on the second line, and the user declines
C15_Witness ==
    /\ Handled({"apply_edit"})
    /\ Prompts # {} /\ call.approval.ok /\ ~call.approval.value
    /\ trace[2].operation.edits[1].range.start.line = 1
    /\ ~result.isError /\ ~result.structuredContent.success

(* C16: goto_definition, find_references and call_hierarchy invoke their   *)
(* provider at most once, only after the file was read and the position    *)
(* resolved, and with that resolved position; when the read or the         *)
(* resolution fails the provider is not invoked and the result has         *)
(* isError = true.                                                         *)
C16_ProviderAfterResolution ==
    Handled(PositionTools) =>
        LET position == ExpectedPosition(content, call.params.fuzzy, lineSearchRadius)
        IN /\ Cardinality(ProviderCalls) <= 1
           /\ \A p \in ProviderCalls :
                  /\ \E r \in Reads : r < p
                  /\ call.read.ok /\ position.ok
                  /\ trace[p].position = position
           /\ (~call.read.ok \/ ~position.ok) => (ProviderCalls = {} /\ result.isError)

\* the symbol stands on the line below the hinted one: the provider is asked there
C16_Witness ==
    /\ Handled({"call_hierarchy"})
    /\ ProviderCalls = {2}
    /\ trace[2].position.line = call.params.fuzzy.lineHint
    /\ ~result.isError

\* the failure of a handled call, if any, in the order in which the handler meets them
FailureOf ==
    IF call.op \in {"global_find", "global_replace"}
    THEN (IF call.provided.ok THEN NoResult ELSE call.provided.error)
    ELSE IF includesDotDot(call.params.uri) THEN normalizeUri(call.params.uri).error
    ELSE IF ~call.read.ok THEN call.read.error
    ELSE IF call.op = "apply_edit"
    THEN (IF ~ExpectedRange(content, call.params.search_text).ok
          THEN ExpectedRange(content, call.params.search_text)
          ELSE IF call.approval.ok THEN NoResult ELSE call.approval.error)
    ELSE (IF ~ExpectedPosition(content, call.params.fuzzy, lineSearchRadius).ok
          THEN ExpectedPosition(content, call.params.fuzzy, lineSearchRadius)
          ELSE IF call.provided.ok THEN NoResult ELSE call.provided.error)

(* C17: the handlers of the six tools do not throw: a failure, be it a     *)
(* rejected uri, a read error, a SymbolResolutionError, a text not found   *)
(* or ambiguous, or an error of a provider, yields a returned result with  *)
(* isError = true whose text is the message of a SymbolResolutionError as  *)
(* it is and the message of any other error after 'Error: '; without a     *)
(* failure the result is no error.                                         *)
C17_HandlersNeverThrow ==
    Handled(AllTools) =>
        IF FailureOf = NoResult THEN result.isError = FALSE
        ELSE /\ result.isError = TRUE
             /\ result.text = ErrorText(IF FailureOf.name = "SymbolResolutionError"
                                        THEN "" ELSE "Error: ", FailureOf)

\* no line within the radius holds the symbol: the text is the resolver's message
C17_Witness ==
    /\ Handled({"goto_definition"})
    /\ call.read.ok
    /\ result.isError
    /\ result.text.prefix = ""
    /\ result.text.of.name = "SymbolResolutionError"

\* the flag of each optional capability against what the driver registered for it
RegistrationMatches ==
    LET caps == driver.capabilities
    IN /\ "goto_definition" \in driver.tools <=> "definition" \in caps
       /\ "find_references" \in driver.tools <=> "references" \in caps
       /\ "call_hierarchy" \in driver.tools <=> "hierarchy" \in caps
       /\ "apply_edit" \in driver.tools <=> "userInteraction" \in caps
       /\ "global_find" \in driver.tools <=> "globalFind" \in caps
       /\ "global_replace" \in driver.tools <=> "globalFind" \in caps
       /\ "file-diagnostics" \in driver.resources <=> "diagnostics" \in caps
       /\ "workspace-diagnostics" \in driver.resources
              <=> "getWorkspaceDiagnostics" \in caps
       /\ "file-outline" \in driver.resources <=> "outline" \in caps
       /\ caps \subseteq {"getFileTree"} => driver.tools = {}

C19_DiagnosticsNotifications ==
    /\ driver.installed =>
           /\ driver.subscriptions <= 1
           /\ driver.subscriptions = 1 => "diagnostics" \in driver.capabilities
           /\ (driver.result.success
                   /\ {"diagnostics", "onDiagnosticsChanged"} \subseteq driver.capabilities)
                  => driver.subscriptions = 1
    /\ Handled({"diagnosticsChanged"}) =>
           /\ Len(trace) = (IF "getWorkspaceDiagnostics" \in driver.capabilities
                            THEN 2 ELSE 1)
           /\ \A i \in 1..Len(trace) : trace[i].to = "sendResourceUpdated"
           /\ trace[1].uri = <<"lsp://diagnostics/">> \o normalizeUri(call.uri).uri
           /\ Len(trace) = 2 => trace[2].uri = <<"lsp://diagnostics/", "workspace">>
    /\ ~Handled({"diagnosticsChanged"}) => CallsTo({"sendResourceUpdated"}) = {}

(* C20: any two PendingEditOperations created by distinct apply_edit calls *)
(* on one driver carry different ids, however the calls are timed.         *)
C20_UniqueEditIds ==
    \A i, j \in 1..Len(issuedIds) : i # j => issuedIds[i] # issuedIds[j]

----------------------------------------------------------------------------
(* The constructor: resolvers built with and without a ResolverConfig, and *)
(* calls of both operations on them.                                       *)

\* new SymbolResolver(fs, config), for every shape of config
InitConfig ==
    /\ content \in CallContents
    /\ config \in ResolverConfigs
    /\ lineSearchRadius = SymbolResolver(config)
    /\ pc = "idle"
    /\ call = NoCall
    /\ probes = <<>>
    /\ result = NoResult
    /\ ServerIdle

NextConfig ==
    \/ \E fuzzy \in CallFuzzies : ResolvePosition(fuzzy)
    \/ \E searchText \in CallTexts : FindExactText(searchText)
    \/ Return

SpecConfig == InitConfig /\ [][NextConfig]_vars

\* the config names a radius of its own
HasRadius == config.present /\ "lineSearchRadius" \in DOMAIN config

(* C21: lineSearchRadius is fixed when the resolver is constructed: 2 when *)
(* the config or its lineSearchRadius field is omitted, the given value    *)
(* otherwise, 0 included (then only the hinted line is examined); no       *)
(* resolvePosition or findExactText call, successful or failed, changes    *)
(* it.                                                                     *)
C21_RadiusFixedAtConstruction ==
    /\ [](/\ ~HasRadius => lineSearchRadius = 2
          /\ HasRadius => lineSearchRadius = config.lineSearchRadius
          /\ (IsResolve /\ HasRadius /\ config.lineSearchRadius = 0) =>
                 \A i \in 1..Len(probes) : probes[i].index = TargetLine)
    /\ [][lineSearchRadius' = lineSearchRadius /\ config' = config]_vars

\* a resolver built with radius 0 has failed a call whose symbol sits on the line
\* next to the hinted one
C21_Witness ==
    /\ IsResolve
    /\ config = WithRadius(0)
    /\ ~result.ok
    /\ HasOccurrence(content, TargetLine - 1, call.fuzzy)

----------------------------------------------------------------------------
(* The installation as a whole.                                            *)

\* the registrations the capabilities ask for that the caller's server refuses
Refused(plan) ==
    {i \in 1..Len(plan) :
         /\ plan[i].needs \subseteq driver.capabilities
         /\ plan[i].kind # "subscription"
         /\ plan[i].name \in driver.taken}

(* C22: installMcpLspDriver never throws and always returns a result       *)
(* object: {success: true} when every registration succeeds, as it does    *)
(* for every combination of capabilities on a fresh server, and otherwise  *)
(* {success: false, error, reason} whose reason names the phase that       *)
(* failed; tools are registered before resources, and when the             *)
(* registration of tools fails no resource is registered.                  *)
C22_InstallAlwaysReturns ==
    driver.installed =>
        /\ driver.result.success \in BOOLEAN
        /\ driver.result.success <=> (Refused(ToolPlan) = {} /\ Refused(ResourcePlan) = {})
        /\ driver.taken = {} => driver.result = [success |-> TRUE]
        /\ driver.result.success => DOMAIN driver.result = {"success"}
        /\ ~driver.result.success =>
               /\ DOMAIN driver.result = {"success", "error", "reason"}
               /\ driver.result.error.name = "Error"
               /\ driver.result.reason =
                      (IF Refused(ToolPlan) # {}
                       THEN "Error occured during registration of tools"
                       ELSE "Error occured during registration of resources")
        /\ \A i, j \in 1..Len(driver.registered) :
               (driver.registered[i].kind = "tool" /\ driver.registered[j].kind # "tool")
                   => i < j
        /\ Refused(ToolPlan) # {} =>
               /\ driver.resources = {}
               /\ driver.subscriptions = 0
               /\ \A i \in 1..Len(driver.registered) : driver.registered[i].kind = "tool"

\* the registration of tools failed after a first tool was registered, and the
\* capabilities asked for resources of their own
C22_Witness ==
    /\ driver.installed
    /\ ~driver.result.success
    /\ driver.result.reason = "Error occured during registration of tools"
    /\ driver.tools # {}
    /\ {"diagnostics", "outline", "onDiagnosticsChanged"} \subseteq driver.capabilities

----------------------------------------------------------------------------
(* What a successful resolvePosition returns, against the file's lines.    *)

Distance(index) == IF index >= TargetLine THEN index - TargetLine ELSE TargetLine - index

(* C23: nearest line wins: whenever resolvePosition succeeds, the line it  *)
(* returns minimises |line - (lineHint - 1)| over all the lines of the     *)
(* file that hold at least orderHint + 1 occurrences of symbolName.        *)
C23_NearestLineWins ==
    (IsResolve /\ result.ok) =>
        /\ HasOccurrence(content, result.line, call.fuzzy)
        /\ \A index \in 0..(LineCount(content) - 1) :
               HasOccurrence(content, index, call.fuzzy)
                   => Distance(result.line) <= Distance(index)

\* the symbol was found next to the hinted line although a line two away, on the
\* side that is looked at first, holds it as well
C23_Witness ==
    /\ IsResolve /\ result.ok
    /\ result.line = TargetLine + 1
    /\ HasOccurrence(content, TargetLine - 2, call.fuzzy)
    /\ lineSearchRadius >= 2

(* C24: soundness: for a non-empty symbolName every position that          *)
(* resolvePosition returns satisfies 0 <= line < lineCount and             *)
(* |line - (lineHint - 1)| <= lineSearchRadius, the text of that line at   *)
(* [character, character + symbolName.length) equals symbolName, and       *)
(* exactly orderHint occurrences of symbolName start at smaller offsets    *)
(* on that line.                                                           *)
C24_Soundness ==
    (IsResolve /\ result.ok /\ Len(call.fuzzy.symbolName) > 0) =>
        /\ 0 <= result.line /\ result.line < LineCount(content)
        /\ Distance(result.line) <= lineSearchRadius
        /\ LET text == LineText(content, result.line)
               symbolName == call.fuzzy.symbolName
           IN /\ result.character >= 0
              /\ result.character + Len(symbolName) <= Len(text)
              /\ Slice(text, result.character, result.character + Len(symbolName))
                     = symbolName
              /\ Cardinality({at \in Occurrences(text, symbolName) : at < result.character})
                     = call.fuzzy.orderHint

\* the second of two overlapping occurrences was returned, on a line other than the
\* hinted one
C24_Witness ==
    /\ IsResolve /\ result.ok
    /\ call.fuzzy.orderHint = 1
    /\ call.fuzzy.symbolName = <<"a", "a">>
    /\ result.character = 1
    /\ result.line # TargetLine

----------------------------------------------------------------------------
(* offsetToPosition against string indices.                                *)

\* the index at which the one occurrence of the text of the call starts
FoundOffset == KthSmallest(Occurrences(content, call.searchText), 0)

(* C25: offsetToPosition agrees with the offsets it is given, which are    *)
(* string indices: the line is the number of '\n' among the first `offset` *)
(* units of the content and the character is the number of units since     *)
(* the last of them, so the walk consumes exactly `offset` units, also in  *)
(* a content with characters that take two indices.                        *)
C25_OffsetsInIndexUnits ==
    (IsFind /\ result.ok /\ call.searchText # <<>>) =>
        /\ result.start = PositionOf(content, FoundOffset)
        /\ result.end = PositionOf(content, FoundOffset + Len(call.searchText))

----------------------------------------------------------------------------
(* Both operations on one file: a caller of resolvePosition and a caller   *)
(* of findExactText, the file unchanged between their reads.               *)

MaxAgreeLen == 4     \* longest content the two operations are compared on
MaxAgreeHint == 2    \* largest lineHint of the resolvePosition call

AgreeContents == SeqsUpTo({"a", LF, CR, HI, LO}, MaxAgreeLen)
AgreeFuzzies == [symbolName : {<<"a">>}, lineHint : 1..MaxAgreeHint, orderHint : {0}]

InitAgree ==
    /\ content \in AgreeContents
    /\ config = NoConfig
    /\ lineSearchRadius = SymbolResolver(config)
    /\ pc = "idle"
    /\ call = NoCall
    /\ probes = <<>>
    /\ result = NoResult
    /\ ServerIdle

NextAgree ==
    \/ \E fuzzy \in AgreeFuzzies : BeginCall("c1", "resolvePosition", fuzzy)
    \/ BeginCall("c2", "findExactText", <<"a">>)
    \/ \E c \in Callers : ReadResolves(c)
    \/ \E c \in Callers : CallReturns(c)

SpecAgree == InitAgree /\ [][NextAgree]_vars

(* C26: for every content, with LF or CRLF line endings, and every         *)
(* non-empty symbol without line breaks that occurs exactly once in the    *)
(* file, on line L (0-based), resolvePosition with lineHint = L + 1 and    *)
(* orderHint = 0 returns the same {line, character} as the start of the    *)
(* range findExactText returns for that symbol.                            *)
C26_OperationsAgree ==
    (/\ Settled("c1") /\ tasks["c1"].op = "resolvePosition"
     /\ Settled("c2") /\ tasks["c2"].op = "findExactText"
     /\ tasks["c1"].arg.symbolName = tasks["c2"].arg
     /\ Cardinality(Occurrences(content, tasks["c2"].arg)) = 1
     /\ tasks["c1"].arg.lineHint
            = PositionOf(content, Min(Occurrences(content, tasks["c2"].arg))).line + 1)
        => /\ tasks["c1"].outcome.ok
           /\ tasks["c2"].outcome.ok
           /\ tasks["c1"].outcome.line = tasks["c2"].outcome.start.line
           /\ tasks["c1"].outcome.character = tasks["c2"].outcome.start.character

\* the same, for the contents in which no character takes two indices
C26_AgreeOnSingleUnits ==
    (\A i \in 1..Len(content) : content[i] \notin {HI, LO}) => C26_OperationsAgree

----------------------------------------------------------------------------
(* apply_edit across its awaits: the handler is suspended while            *)
(* fs.readFile runs and again until the range reaches                      *)
(* previewAndApplyEdits, and the file belongs to other writers as well.    *)

\* apply_edit is called: normalizeUri, then resolver.findExactText starts its read
EditBegins(params) ==
    /\ pc = "idle"
    /\ "apply_edit" \in driver.tools
    /\ Len(issuedIds) < MaxEdits
    /\ call' = [op |-> "apply_edit", params |-> params]
    /\ LET uri == normalizeUri(params.uri)
       IN IF ~uri.ok
          THEN /\ pc' = "done"
               /\ trace' = <<>>
               /\ result' = applyEditCatch(uri.error)
          ELSE /\ pc' = "reading"
               /\ trace' = <<[to |-> "readFile", uri |-> uri.uri]>>
               /\ result' = NoResult
    /\ UNCHANGED <<content, lineSearchRadius, config, probes, tasks, now, issuedIds, driver>>

\* the read settles and findExactText looks the text up in what was read
EditReadSettles(read) ==
    /\ pc = "reading"
    /\ call' = [op |-> "apply_edit", params |-> call.params, read |-> read]
    /\ LET range == findExactTextCall(read, call.params.search_text).outcome
       IN IF ~range.ok
          THEN /\ pc' = "done"
               /\ result' = applyEditCatch(range)
          ELSE /\ pc' = "read"
               /\ result' = NoResult
    /\ UNCHANGED <<content, lineSearchRadius, config, probes, tasks, trace, now, issuedIds,
                   driver>>

\* the handler resumes with the range, builds the operation and asks the user
EditPrompts(approval) ==
    /\ pc = "read"
    /\ LET done == applyEdit(call.params, call.read, approval, now)
       IN /\ trace' = done.trace
          /\ result' = done.result
          /\ issuedIds' = issuedIds \o done.issued
    /\ call' = [op |-> "apply_edit", params |-> call.params, read |-> call.read,
                approval |-> approval]
    /\ pc' = "done"
    /\ UNCHANGED <<content, lineSearchRadius, config, probes, tasks, now, driver>>

InitEdit == InitTools

NextEdit ==
    \/ \E params \in EditParams : EditBegins(params)
    \/ \E read \in ToolReads : EditReadSettles(read)
    \/ \E approval \in ApprovalOutcomes : EditPrompts(approval)
    \/ \E fileContent \in CallContents : FileChanges(fileContent)
    \/ HandlerReturns

SpecEdit == InitEdit /\ [][NextEdit]_vars

\* the range of the operation that the last call in the trace hands over
PromptedRange(calls) == calls[Len(calls)].operation.edits[1].range

(* C27: in apply_edit, at the moment previewAndApplyEdits is invoked the   *)
(* range of the operation delimits exactly search_text in the content the  *)
(* file has on disk at that moment, also when another writer has modified  *)
(* the file between the handler's read and the approval request.           *)
C27_RangeCurrentAtPrompt ==
    [][(pc = "read" /\ pc' = "done") =>
           Slice(content', PositionToOffset(content', PromptedRange(trace').start),
                           PositionToOffset(content', PromptedRange(trace').end))
               = call.params.search_text]_vars

\* the same, for the calls whose file was left alone since the read
C27_RangeOfContentRead ==
    [][(pc = "read" /\ pc' = "done" /\ call.read.content = content) =>
           Slice(content', PositionToOffset(content', PromptedRange(trace').start),
                           PositionToOffset(content', PromptedRange(trace').end))
               = call.params.search_text]_vars

----------------------------------------------------------------------------
(* The resources: lsp://diagnostics/{+path}, lsp://outline/{+path},        *)
(* lsp://filetree/{+path} and lsp://files/{+path}.  A handler's result is  *)
(* the contents it returns; the fileTree handler has no catch and what it  *)
(* throws goes to the server.                                              *)

Digits == <<"0", "1", "2", "3", "4", "5", "6", "7", "8", "9">>
IsDigits(s) == Len(s) >= 1 /\ \A i \in 1..Len(s) : \E d \in 1..Len(Digits) : Digits[d] = s[i]
DigitValue(unit) == (CHOOSE d \in 1..Len(Digits) : Digits[d] = unit) - 1

\* parseInt(s, 10) of a run of digits
RECURSIVE parseInt(_)
parseInt(s) ==
    IF Len(s) = 0 THEN 0
    ELSE Len(Digits) * parseInt(SubSeq(s, 1, Len(s) - 1)) + DigitValue(s[Len(s)])

NoRange == [ok |-> FALSE]

\* fragment.match(/^L(\d+)(?:-L(\d+))?$/), then the two numbers
parseLineRange(fragment) ==
    IF fragment = Undefined \/ Len(fragment) = 0 THEN NoRange
    ELSE IF fragment[1] # "L" THEN NoRange
    ELSE LET rest == Slice(fragment, 1, Len(fragment))
             dash == IndexOf(rest, <<"-", "L">>, 0)
             first == IF dash = -1 THEN rest ELSE Slice(rest, 0, dash)
             second == IF dash = -1 THEN first ELSE Slice(rest, dash + 2, Len(rest))
         IN IF ~IsDigits(first) \/ ~IsDigits(second) THEN NoRange
            ELSE IF parseInt(first) < 1 \/ parseInt(second) < parseInt(first) THEN NoRange
            ELSE [ok |-> TRUE, start |-> parseInt(first), end |-> parseInt(second)]

\* lines.join('\n')
RECURSIVE join(_)
join(lines) ==
    IF Len(lines) = 0 THEN <<>>
    ELSE IF Len(lines) = 1 THEN lines[1]
    ELSE lines[1] \o <<LF>> \o join(Tail(lines))

\* content.split(/\r?\n/).slice(range.start - 1, range.end).join('\n')
extractLines(fileContent, range) ==
    LET lines == Split(fileContent)
    IN join(SubSeq(lines, range.start, Min({range.end, Len(lines)})))

toUpperCase(severity) ==
    IF severity = "error" THEN "ERROR"
    ELSE IF severity = "warning" THEN "WARNING"
    ELSE IF severity = "information" THEN "INFORMATION"
    ELSE "HINT"

\* one markdown line per diagnostic, of a diagnostic without source and code
formatDiagnosticsAsMarkdown(diagnostics) ==
    IF Len(diagnostics) = 0 THEN <<"No diagnostics found.">>
    ELSE [i \in 1..Len(diagnostics) |->
              <<"- **", toUpperCase(diagnostics[i].severity), "** at line ",
                diagnostics[i].range.start.line + 1, ": ", diagnostics[i].message>>]

\* one markdown line per symbol, of symbols without detail and children
formatSymbolsAsMarkdown(symbols) ==
    IF Len(symbols) = 0 THEN <<"No symbols found.">>
    ELSE [i \in 1..Len(symbols) |->
              LET startLine == symbols[i].range.start.line + 1
                  endLine == symbols[i].range.end.line + 1
              IN <<"- **", symbols[i].kind, "** ", [code |-> symbols[i].name], " ",
                   [parenthesised |-> IF startLine = endLine THEN <<"line ", startLine>>
                                      ELSE <<"lines ", startLine, "-", endLine>>]>>]

\* JSON.stringify of a list of paths
stringify(files) == <<"[">> \o files \o <<"]">>

ResourceNames == {"file-diagnostics", "file-outline", "fileTree", "filesystem"}

\* the paths a resource is read with: those of the tools, and paths with a fragment
ResourcePaths ==
    Uris \cup {<<"f", "#", "L", "1">>, <<"f", "#", "L", "1", "-", "L", "2">>,
               <<"f", "#", "L", "2", "-", "L", "1">>, <<"f", "#", ".", ".">>,
               <<".", ".", "#", "L", "1">>}

Returned(value) == [ok |-> TRUE, value |-> value]
Failures == {[ok |-> FALSE, error |-> ProviderError], [ok |-> FALSE, error |-> ThrownString]}

DiagnosticsOutcomes ==
    {Returned(<<>>),
     Returned(<<[uri |-> <<"f">>, severity |-> "error", message |-> "m",
                 range |-> [start |-> [line |-> 0, character |-> 0],
                            end |-> [line |-> 0, character |-> 1]]]>>)} \cup Failures
SymbolsOutcomes ==
    {Returned(<<>>),
     Returned(<<[name |-> "a", kind |-> "function",
                 range |-> [start |-> [line |-> 0, character |-> 0],
                            end |-> [line |-> 1, character |-> 0]]]>>)} \cup Failures
FilesOutcomes == {Returned(<<>>), Returned(<<"f">>)} \cup Failures

Contents(uri, mimeType, text) ==
    [threw |-> FALSE, contents |-> <<[uri |-> uri, mimeType |-> mimeType, text |-> text]>>]

\* the handler of lsp://diagnostics/{+path}
fileDiagnostics(path, provided) ==
    LET normalizedPath == normalizeUri(path)
        uri == <<"lsp://diagnostics/">> \o path
        asking == <<[to |-> "provideDiagnostics", uri |-> normalizedPath.uri]>>
    IN IF ~normalizedPath.ok
       THEN [trace |-> <<>>,
             result |-> Contents(uri, "text/markdown",
                                 ErrorText("Error: ", normalizedPath.error))]
       ELSE IF ~provided.ok
       THEN [trace |-> asking,
             result |-> Contents(uri, "text/markdown", ErrorText("Error: ", provided.error))]
       ELSE [trace |-> asking,
             result |-> Contents(uri, "text/markdown",
                                 formatDiagnosticsAsMarkdown(provided.value))]

\* the handler of lsp://outline/{+path}
fileOutline(path, provided) ==
    LET normalizedPath == normalizeUri(path)
        uri == <<"lsp://outline/">> \o path
        asking == <<[to |-> "provideDocumentSymbols", uri |-> normalizedPath.uri]>>
    IN IF ~normalizedPath.ok
       THEN [trace |-> <<>>,
             result |-> Contents(uri, "text/markdown",
                                 ErrorText("Error: ", normalizedPath.error))]
       ELSE IF ~provided.ok
       THEN [trace |-> asking,
             result |-> Contents(uri, "text/markdown", ErrorText("Error: ", provided.error))]
       ELSE [trace |-> asking,
             result |-> Contents(uri, "text/markdown",
                                 formatSymbolsAsMarkdown(provided.value))]

\* the handler of lsp://filetree/{+path}: nothing is caught
fileTree(path, provided) ==
    LET normalizedPath == normalizeUri(path)
        uri == <<"lsp://filetree/">> \o path
        asking == <<[to |-> "getFileTree", uri |-> normalizedPath.uri]>>
    IN IF ~normalizedPath.ok
       THEN [trace |-> <<>>, result |-> [threw |-> TRUE, error |-> normalizedPath.error]]
       ELSE IF ~provided.ok
       THEN [trace |-> asking, result |-> [threw |-> TRUE, error |-> provided.error]]
       ELSE [trace |-> asking,
             result |-> Contents(uri, "application/json", stringify(provided.value))]

\* the handler of lsp://files/{+path}: the file, some of its lines, or the directory
filesystem(pathWithFragment, read, listed) ==
    LET uriString == <<"lsp://files/">> \o pathWithFragment
        hashIndex == IndexOf(pathWithFragment, <<"#">>, 0)
        fragment == IF hashIndex # -1
                    THEN Slice(pathWithFragment, hashIndex + 1, Len(pathWithFragment))
                    ELSE Undefined
        path == IF hashIndex # -1 THEN Slice(pathWithFragment, 0, hashIndex)
                ELSE pathWithFragment
        normalizedPath == normalizeUri(path)
        lineRange == parseLineRange(fragment)
        reading == <<[to |-> "readFile", uri |-> normalizedPath.uri]>>
        listing == Append(reading, [to |-> "readDirectory", uri |-> normalizedPath.uri])
    IN IF ~normalizedPath.ok
       THEN [trace |-> <<>>,
             result |-> Contents(uriString, "text/plain",
                                 ErrorText("Error: ", normalizedPath.error))]
       ELSE IF read.ok
       THEN [trace |-> reading,
             result |-> Contents(uriString, "text/plain",
                                 IF lineRange.ok THEN extractLines(read.content, lineRange)
                                 ELSE read.content)]
       ELSE IF ~listed.ok
       THEN [trace |-> listing,
             result |-> Contents(uriString, "text/plain",
                                 ErrorText("Error: ", listed.error))]
       ELSE [trace |-> listing,
             result |-> Contents(uriString, "application/json", stringify(listed.value))]

\* a resource is read: the handler runs to its end
ResourceRead(name, path, handled, inputs) ==
    /\ pc = "idle"
    /\ name \in driver.resources
    /\ trace' = handled.trace
    /\ result' = handled.result
    /\ call' = [op |-> name, path |-> path, inputs |-> inputs]
    /\ pc' = "done"
    /\ UNCHANGED <<content, lineSearchRadius, config, probes, tasks, now, issuedIds, driver>>

FileDiagnosticsRead(path, provided) ==
    ResourceRead("file-diagnostics", path, fileDiagnostics(path, provided), <<provided>>)

FileOutlineRead(path, provided) ==
    ResourceRead("file-outline", path, fileOutline(path, provided), <<provided>>)

FileTreeRead(path, provided) ==
    ResourceRead("fileTree", path, fileTree(path, provided), <<provided>>)

FilesystemRead(pathWithFragment, read, listed) ==
    ResourceRead("filesystem", pathWithFragment, filesystem(pathWithFragment, read, listed),
                 <<read, listed>>)

\* the tools and the resources of a driver installed with every capability
NextHandlers ==
    \/ \E tool \in PositionTools :
          \E params \in PositionParams(tool), read \in ToolReads,
             provided \in ProviderOutcomes : PositionToolCall(tool, params, read, provided)
    \/ \E params \in EditParams, read \in ToolReads, approval \in ApprovalOutcomes :
          ApplyEditCall(params, read, approval)
    \/ \E params \in FindParams, found \in ProviderOutcomes : GlobalFindCall(params, found)
    \/ \E params \in ReplaceParams, replaced \in ProviderOutcomes :
          GlobalReplaceCall(params, replaced)
    \/ \E path \in ResourcePaths, provided \in DiagnosticsOutcomes :
          FileDiagnosticsRead(path, provided)
    \/ \E path \in ResourcePaths, provided \in SymbolsOutcomes :
          FileOutlineRead(path, provided)
    \/ \E path \in ResourcePaths, provided \in FilesOutcomes : FileTreeRead(path, provided)
    \/ \E path \in ResourcePaths, read \in ToolReads, listed \in FilesOutcomes :
          FilesystemRead(path, read, listed)
    \/ HandlerReturns

SpecHandlers == InitTools /\ [][NextHandlers]_vars

\* the tools that take a uri, and the calls out of the driver that are given one
UriTools == PositionTools \cup {"apply_edit"}
UriCalls ==
    {"readFile", "readDirectory", "getFileTree", "provideDefinition", "provideReferences",
     "provideCallHierarchy", "provideDiagnostics", "provideDocumentSymbols",
     "previewAndApplyEdits"}
UriGiven(called) ==
    IF called.to = "previewAndApplyEdits" THEN called.operation.uri ELSE called.uri

\* the uri the running handler was called for; the line fragment of a filesystem path
\* is no part of it
RequestedUri ==
    IF call.op \in UriTools THEN call.params.uri
    ELSE IF call.op = "filesystem" /\ IndexOf(call.path, <<"#">>, 0) # -1
    THEN Slice(call.path, 0, IndexOf(call.path, <<"#">>, 0))
    ELSE call.path

(* C28: no tool or resource handler ever calls fileAccess.readFile, a      *)
(* capability provider or previewAndApplyEdits with a uri that contains    *)
(* '..': normalizeUri rejects such a uri, one that starts with file://     *)
(* included, before any of those calls is made, and the tool call ends     *)
(* with an error result.                                                   *)
C28_NoTraversal ==
    Handled(UriTools \cup ResourceNames) =>
        /\ \A i \in CallsTo(UriCalls) : ~includesDotDot(UriGiven(trace[i]))
        /\ includesDotDot(RequestedUri) =>
               /\ trace = <<>>
               /\ call.op \in UriTools => result.isError

\* apply_edit was called for a file:// uri with '..' in it
C28_Witness ==
    /\ Handled({"apply_edit"})
    /\ call.params.uri[1] = FileScheme
    /\ includesDotDot(call.params.uri)
    /\ call.read.ok /\ ExpectedRange(content, call.params.search_text).ok
    /\ trace = <<>>
    /\ result.isError

----------------------------------------------------------------------------
(* The line range in the reason of a SymbolResolutionError.                *)

(* C29: whenever resolvePosition fails for a lineHint >= 1, the line       *)
(* range in the reason of the failure is well-formed, non-empty and        *)
(* inside the file: 1 <= low <= high <= lineCount.                         *)
C29_ReasonRangeWellFormed ==
    (IsResolve /\ ~result.ok /\ call.fuzzy.lineHint >= 1) =>
        /\ 1 <= result.reason.from
        /\ result.reason.from <= result.reason.to
        /\ result.reason.to <= LineCount(content)

\* the same, for the calls whose window reaches into the file
C29_RangeOfWindowInFile ==
    (IsResolve /\ call.fuzzy.lineHint - lineSearchRadius <= LineCount(content))
        => C29_ReasonRangeWellFormed

----------------------------------------------------------------------------
(* findExactText with the empty text.                                      *)

(* C30: findExactText never returns a range for an empty literalText: for  *)
(* every content a call with the empty string, which ApplyEditSchema       *)
(* admits, fails, so that apply_edit never asks the user to approve an     *)
(* edit anchored on empty text.                                            *)
C30_EmptyTextFails ==
    (IsFind /\ call.searchText = <<>>) => ~result.ok

\* the same, for every content but those of a single code unit
C30_EmptyTextFailsUnlessOneUnit ==
    Len(content) # 1 => C30_EmptyTextFails

====
